---- MODULE Spec2Model ----
(***************************************************************************)
(* Model of 02_dlm_specific_tools/dlm_BCMtool_call.py: the tool-call       *)
(* orchestration script (first completion, tool dispatch, result append,   *)
(* second completion) and the backend query functions it defines, with the *)
(* tool schemas of dlm_tool_schema.py.                                     *)
(***************************************************************************)
EXTENDS Naturals, Sequences, FiniteSets, TLC

(***************************************************************************)
(* Bounds of the model.                                                    *)
(***************************************************************************)
\* largest number of tool-call requests in one model response
MaxToolCalls == 2

(***************************************************************************)
(* Python values.  None, strings and lists are tagged so that truthiness   *)
(* ("not sid", "if sections") is computed the way Python computes it.      *)
(***************************************************************************)
None == [t |-> "none"]

Str(s) == [t |-> "str", v |-> s]

List(l) == [t |-> "list", v |-> l]

Truthy(x) ==
    CASE x.t = "none" -> FALSE
      [] x.t = "str"  -> x.v /= ""
      [] x.t = "list" -> x.v /= <<>>

(***************************************************************************)
(* Tool schemas (dlm_tool_schema.py).                                      *)
(***************************************************************************)
\* names of the schemas get_all_schemas() returns
get_all_schemas == {"search_system_flexi", "get_entity_details"}

\* name of the schema get_BCM_request_schema() returns
get_BCM_request_schema == "get_BCM_Request"

\* tools = get_all_schemas(): the list handed to both completion calls
tools == get_all_schemas

\* "valid enum" of OPTION in VALUE_SELOP (the model draws EQ, BT, NB of it)
Options == {"EQ", "BT", "NB"}

\* operators that take an upper limit
RangeOptions == {"BT", "NB"}

\* one VALUE_SELOP entry: SIGN, OPTION, LOW required, HIGH optional
SelOps ==
    {[SIGN |-> "I", OPTION |-> o, LOW |-> "A"] : o \in Options}
    \cup {[SIGN |-> "I", OPTION |-> o, LOW |-> "A", HIGH |-> "Z"] : o \in Options}

\* HEADER_OUT_FEILD, the comma-separated field list, as the list of its fields
OutFieldLists == {<<"REQUEST_ID", "TA_SID">>, <<"REQUEST_ID", "REQUEST_ID">>}

\* payload objects a model can produce from the schema
Payloads ==
    {[HEADER_FILTER |-> <<[FIELDNAME |-> "REQUEST_ID", VALUE_SELOP |-> <<s>>]>>,
      HEADER_OUT_FEILD |-> f] : s \in SelOps, f \in OutFieldLists}

(***************************************************************************)
(* What the completion service can answer.                                 *)
(***************************************************************************)
\* tool names a model response can carry: advertised, handled, or neither
ToolNames == tools \cup {get_BCM_request_schema, "get_unknown_thing"}

\* tool_call.function.arguments: a JSON text; json.loads raises on a
\* malformed one, and yields the object otherwise
MalformedArguments == [wellformed |-> FALSE]

WellformedArguments(obj) == [wellformed |-> TRUE, obj |-> obj]

\* argument objects for get_BCM_Request: a payload, or a key that
\* search_BCM_Request does not accept
BCMArguments ==
    {WellformedArguments([payload |-> p]) : p \in Payloads}
    \cup {WellformedArguments([query |-> "SID,status"]), MalformedArguments}

OtherArguments == {WellformedArguments([query |-> "SID,status"]), MalformedArguments}

ArgumentsOf(name) ==
    IF name = get_BCM_request_schema THEN BCMArguments ELSE OtherArguments

\* correlation identifier of the i-th tool call of a response
CallId(i) == i

FirstContents == {None, Str("first answer")}

SecondContents == {None, Str("final answer")}

\* a requested function: name and arguments text
Functions ==
    UNION {{[name |-> nm, arguments |-> a] : a \in ArgumentsOf(nm)} : nm \in ToolNames}

\* the lists of n tool calls a response can carry
RECURSIVE ToolCallLists(_)
ToolCallLists(n) ==
    IF n = 0 THEN {<<>>}
    ELSE {Append(l, [id |-> CallId(n), function |-> f]) :
            l \in ToolCallLists(n - 1), f \in Functions}

\* response.choices[0].message of the first call; an empty tool_calls
\* stands for both None and [] ("not tool_calls" is true of both)
FirstMessages ==
    UNION {{[content |-> c, tool_calls |-> l] : c \in FirstContents, l \in ToolCallLists(n)} :
             n \in 0..MaxToolCalls}

(***************************************************************************)
(* What the client-request backend can answer.                             *)
(***************************************************************************)
\* response bodies: two JSON texts of one value (one of them not in
\* json.dumps' own layout), a JSON error body, and two texts that are no JSON
BodyTexts ==
    {"{\"rows\": []}", "{ \"rows\":[] }", "{\"error\": \"no authority\"}",
     "<html>Logon failed</html>", ""}

StatusCodes == {200, 500}

\* requests.Response objects requests.post can return
Responses == {[t |-> "Response", status_code |-> c, text |-> b] :
                c \in StatusCodes, b \in BodyTexts}

\* resp.json() / json.loads on a body: the value, or ValueError
JsonLoads(text) ==
    CASE text \in {"{\"rows\": []}", "{ \"rows\":[] }"} -> [ok |-> TRUE, v |-> [rows |-> <<>>]]
      [] text = "{\"error\": \"no authority\"}" -> [ok |-> TRUE, v |-> [error |-> "no authority"]]
      [] OTHER -> [ok |-> FALSE]

\* json.dumps of a value resp.json() returned
JsonDumps(v) ==
    IF "rows" \in DOMAIN v THEN "{\"rows\": []}" ELSE "{\"error\": \"no authority\"}"

(***************************************************************************)
(* State of the script.                                                    *)
(***************************************************************************)
VARIABLES
    pc,                \* position of the script
    messages,          \* the conversation (line 297)
    response,          \* first response's message, None before it
    tool_call,         \* loop variable of line 335, None before the loop
    arguments,         \* arguments parsed at line 336, None before
    function_response, \* value of call_function (line 338)
    assistant_content, \* text printed in the no-tool branch (line 325)
    final_response,    \* second response's content (line 361)
    completions,       \* the messages list handed to each completion call
    posts,             \* the json bodies handed to requests.post (line 240)
    second_response,   \* second response's message, None before it
    invocations,       \* ids of the tool calls call_function was applied to
    exception,         \* the exception that ended the script, None if none
    sysd_pc,           \* position of one aicockpit_get_system_details call
    sysd_args,         \* its arguments: sid, objid, sysType, sections, base_url
    sysd_payload,      \* payload built at lines 77-86, None before
    sysd_posts,        \* the (url, json) pairs handed to client.post (line 96)
    sysd_return,       \* the returned JSON string, Unset before the return
    sysd_resp,         \* resp of line 96, None while client.post has not returned
    sect_pc,           \* position of one aicockpit_get_sections call
    sect_base_url,     \* its argument
    sect_gets,         \* the urls handed to client.get (line 169)
    sect_resp,         \* resp of line 169, None while client.get has not returned
    sect_return        \* the returned JSON string, Unset before the return

vars == <<pc, messages, response, tool_call, arguments, function_response,
          assistant_content, final_response, completions, posts, second_response, invocations, exception,
          sysd_pc, sysd_args, sysd_payload, sysd_posts, sysd_return, sysd_resp,
          sect_pc, sect_base_url, sect_gets, sect_resp, sect_return>>

script_vars == <<pc, messages, response, tool_call, arguments, function_response,
                 assistant_content, final_response, completions, posts,
                 second_response, invocations, exception>>

sysd_vars == <<sysd_pc, sysd_args, sysd_payload, sysd_posts, sysd_return, sysd_resp>>

sect_vars == <<sect_pc, sect_base_url, sect_gets, sect_resp, sect_return>>

system_prompt == "system_prompt"

user_prompt == "user_prompt"

Unset == [t |-> "unset"]

ScriptInit ==
    /\ pc = "first_call"
    /\ messages = <<[role |-> "system", content |-> system_prompt],
                    [role |-> "user", content |-> user_prompt]>>
    /\ response = None
    /\ tool_call = None
    /\ arguments = None
    /\ function_response = Unset
    /\ assistant_content = Unset
    /\ final_response = Unset
    /\ completions = <<>>
    /\ posts = <<>>
    /\ second_response = None
    /\ invocations = <<>>
    /\ exception = None

\* no call of aicockpit_get_system_details is under way
SystemDetailsIdle ==
    /\ sysd_pc = "idle"
    /\ sysd_args = None
    /\ sysd_payload = None
    /\ sysd_posts = <<>>
    /\ sysd_return = Unset
    /\ sysd_resp = None

\* no call of aicockpit_get_sections is under way
SectionsIdle ==
    /\ sect_pc = "idle"
    /\ sect_base_url = None
    /\ sect_gets = <<>>
    /\ sect_resp = None
    /\ sect_return = Unset

Init == ScriptInit /\ SystemDetailsIdle /\ SectionsIdle

\* an exception nothing catches ends the script
Raise(exc) ==
    /\ pc' = "crashed"
    /\ exception' = Str(exc)

\* FirstCompletion with the failed call tried again instead of raised
FirstCompletionRetried ==
    /\ UNCHANGED <<sysd_vars, sect_vars>>
    /\ pc = "first_call"
    /\ completions' = Append(completions, messages)
    /\ \/ /\ \E m \in FirstMessages : response' = m
          /\ pc' = "branch"
          /\ UNCHANGED exception
       \/ /\ Len(completions) < 2
          /\ pc' = "first_call"
          /\ exception' = Str("CompletionServiceError")
          /\ UNCHANGED response
    /\ UNCHANGED <<messages, tool_call, arguments, function_response,
                   assistant_content, final_response, posts, second_response, invocations>>

(***************************************************************************)
(* Lines 305-309: the first completion call.                               *)
(***************************************************************************)
FirstCompletion ==
    /\ UNCHANGED <<sysd_vars, sect_vars>>
    /\ pc = "first_call"
    /\ completions' = Append(completions, messages)
    /\ \/ /\ \E m \in FirstMessages : response' = m
          /\ pc' = "branch"
          /\ UNCHANGED exception
       \/ /\ Raise("CompletionServiceError")
          /\ UNCHANGED response
    /\ UNCHANGED <<messages, tool_call, arguments, function_response,
                   assistant_content, final_response, posts, second_response, invocations>>

\* NoToolCalls with the assistant's text dropped
NoToolCallsLosesContent ==
    /\ UNCHANGED <<sysd_vars, sect_vars>>
    /\ pc = "branch"
    /\ response.tool_calls = <<>>
    /\ assistant_content' = None
    /\ pc' = "done"
    /\ UNCHANGED <<messages, response, tool_call, arguments, function_response,
                   final_response, completions, posts, second_response, invocations,
                   exception>>

(***************************************************************************)
(* Lines 323-326: no tool was called.                                      *)
(***************************************************************************)
NoToolCalls ==
    /\ UNCHANGED <<sysd_vars, sect_vars>>
    /\ pc = "branch"
    /\ response.tool_calls = <<>>
    /\ assistant_content' = response.content
    /\ pc' = "done"
    /\ UNCHANGED <<messages, response, tool_call, arguments, function_response,
                   final_response, completions, posts, second_response, invocations,
                   exception>>

(***************************************************************************)
(* Lines 327-336: the assistant turn is appended, then the loop parses the *)
(* arguments of every tool call; its body is line 336 alone.               *)
(***************************************************************************)
\* index of the first tool call whose arguments json.loads rejects, 0 if none
FirstMalformed(calls) ==
    IF \E i \in 1..Len(calls) : ~calls[i].function.arguments.wellformed
    THEN CHOOSE i \in 1..Len(calls) :
            /\ ~calls[i].function.arguments.wellformed
            /\ \A j \in 1..(i - 1) : calls[j].function.arguments.wellformed
    ELSE 0

\* the tool call the loop variable is left on when the loop ends
LoopVariable(calls) ==
    IF FirstMalformed(calls) = 0 THEN calls[Len(calls)] ELSE calls[FirstMalformed(calls)]

\* the value of arguments when the loop ends
LoopArguments(calls) ==
    LET k == FirstMalformed(calls) IN
    IF k = 0 THEN calls[Len(calls)].function.arguments.obj
    ELSE IF k = 1 THEN None
    ELSE calls[k - 1].function.arguments.obj

\* ParseArguments without the append of the assistant turn
ParseArgumentsSkipsAssistant ==
    /\ UNCHANGED <<sysd_vars, sect_vars>>
    /\ pc = "branch"
    /\ response.tool_calls /= <<>>
    /\ tool_call' = LoopVariable(response.tool_calls)
    /\ arguments' = LoopArguments(response.tool_calls)
    /\ IF FirstMalformed(response.tool_calls) = 0
       THEN pc' = "call_function" /\ UNCHANGED exception
       ELSE Raise("JSONDecodeError")
    /\ UNCHANGED <<messages, response, function_response, assistant_content, final_response,
                   completions, posts, second_response, invocations>>

ParseArguments ==
    /\ UNCHANGED <<sysd_vars, sect_vars>>
    /\ pc = "branch"
    /\ response.tool_calls /= <<>>
    /\ messages' = Append(messages, [role |-> "assistant", content |-> None,
                                     tool_calls |-> response.tool_calls])
    /\ tool_call' = LoopVariable(response.tool_calls)
    /\ arguments' = LoopArguments(response.tool_calls)
    /\ IF FirstMalformed(response.tool_calls) = 0
       THEN pc' = "call_function" /\ UNCHANGED exception
       ELSE Raise("JSONDecodeError")
    /\ UNCHANGED <<response, function_response, assistant_content, final_response,
                   completions, posts, second_response, invocations>>

(***************************************************************************)
(* Line 338 with call_function (316-318) and search_BCM_Request (190-260). *)
(***************************************************************************)
\* parameters of search_BCM_Request
search_BCM_Request_params == {"payload", "method", "endpoint"}

\* the names call_function has a handler for
call_function_names == {"get_BCM_Request"}

CallFunction ==
    /\ UNCHANGED <<sysd_vars, sect_vars>>
    /\ pc = "call_function"
    /\ invocations' = Append(invocations, tool_call.id)
    /\ IF tool_call.function.name \in call_function_names
       THEN IF ~(DOMAIN arguments \subseteq search_BCM_Request_params)
            THEN \* search_BCM_Request(**args): unexpected keyword argument
                 /\ Raise("TypeError")
                 /\ UNCHANGED <<posts, function_response>>
            ELSE /\ posts' = Append(posts, IF "payload" \in DOMAIN arguments
                                           THEN arguments.payload ELSE None)
                 /\ \/ \* requests.post raises: timeout, refused, TLS
                       /\ Raise("ConnectionError")
                       /\ UNCHANGED function_response
                    \/ /\ \E r \in Responses : function_response' = r
                       /\ pc' = "append_result"
                       /\ UNCHANGED exception
       ELSE \* call_function falls off its end
            /\ function_response' = None
            /\ pc' = "append_result"
            /\ UNCHANGED <<posts, exception>>
    /\ UNCHANGED <<messages, response, tool_call, arguments, assistant_content,
                   final_response, completions, second_response>>

(***************************************************************************)
(* Lines 339-351: the result turn.                                         *)
(***************************************************************************)
\* AppendResult whose except clause appends nothing
AppendResultDropsRawText ==
    /\ UNCHANGED <<sysd_vars, sect_vars>>
    /\ pc = "append_result"
    /\ IF function_response.t = "none"
       THEN /\ Raise("AttributeError")
            /\ UNCHANGED messages
       ELSE /\ LET parsed == JsonLoads(function_response.text) IN
               messages' = IF parsed.ok
                           THEN Append(messages,
                                    [role |-> "tool", tool_call_id |-> tool_call.id,
                                     content |-> JsonDumps(parsed.v)])
                           ELSE messages
            /\ pc' = "second_call"
            /\ UNCHANGED exception
    /\ UNCHANGED <<response, tool_call, arguments, function_response, assistant_content,
                   final_response, completions, posts, second_response, invocations>>

AppendResult ==
    /\ UNCHANGED <<sysd_vars, sect_vars>>
    /\ pc = "append_result"
    /\ IF function_response.t = "none"
       THEN \* None.json() raises inside the try, None.text inside the except
            /\ Raise("AttributeError")
            /\ UNCHANGED messages
       ELSE /\ LET parsed == JsonLoads(function_response.text) IN
               messages' = Append(messages,
                   IF parsed.ok
                   THEN [role |-> "tool", tool_call_id |-> tool_call.id,
                         content |-> JsonDumps(parsed.v)]
                   ELSE [role |-> "function", name |-> tool_call.function.name,
                         content |-> function_response.text])
            /\ pc' = "second_call"
            /\ UNCHANGED exception
    /\ UNCHANGED <<response, tool_call, arguments, function_response, assistant_content,
                   final_response, completions, posts, second_response, invocations>>

(***************************************************************************)
(* Lines 354-365: the second completion call and the final answer.         *)
(***************************************************************************)
\* the second response may again carry tool calls
SecondMessages ==
    {[content |-> c, tool_calls |-> l] :
        c \in SecondContents,
        l \in {<<>>, <<[id |-> CallId(1),
                        function |-> [name |-> get_BCM_request_schema,
                                      arguments |-> MalformedArguments]]>>}}

SecondCompletion ==
    /\ UNCHANGED <<sysd_vars, sect_vars>>
    /\ pc = "second_call"
    /\ completions' = Append(completions, messages)
    /\ \/ /\ \E m \in SecondMessages :
                /\ second_response' = m
                /\ final_response' = m.content
          /\ pc' = "done"
          /\ UNCHANGED exception
       \/ /\ Raise("CompletionServiceError")
          /\ UNCHANGED <<second_response, final_response>>
    /\ UNCHANGED <<messages, response, tool_call, arguments, function_response,
                   assistant_content, posts, invocations>>

Next ==
    \/ FirstCompletion
    \/ NoToolCalls
    \/ ParseArguments
    \/ CallFunction
    \/ AppendResult
    \/ SecondCompletion

Spec == Init /\ [][Next]_vars

(***************************************************************************)
(* aicockpit_get_system_details (lines 22-129), one call of it.            *)
(***************************************************************************)
SidValues == {None, Str(""), Str("CCF")}

ObjidValues == {None, Str(""), Str("0000012345")}

SysTypeValues == {Str("ABAPSystem"), Str("HANASystem")}

SectionsValues == {None, List(<<>>), List(<<"Tickets">>)}

BaseUrlValues == {None, Str("https://slim.example")}

SystemDetailsArgs ==
    [sid : SidValues, objid : ObjidValues, sysType : SysTypeValues,
     sections : SectionsValues, base_url : BaseUrlValues]

\* a call of aicockpit_get_system_details has been made
SystemDetailsCalled ==
    /\ sysd_pc = "called"
    /\ sysd_args \in SystemDetailsArgs
    /\ sysd_payload = None
    /\ sysd_posts = <<>>
    /\ sysd_return = Unset
    /\ sysd_resp = None

InitSystemDetails ==
    /\ ScriptInit
    /\ SystemDetailsCalled
    /\ SectionsIdle

\* json.dumps(obj, indent=2): a JSON string whose value is obj
JsonDumpsIndent(obj) == [t |-> "json", indent |-> 2, v |-> obj]

\* MissingIdentifier testing "is None" where the code tests falsiness
MissingIdentifierIsNone(a) == a.sid.t = "none" /\ a.objid.t = "none"

\* lines 63-69: the guard of the validation branch
MissingIdentifier(a) == ~Truthy(a.sid) /\ ~Truthy(a.objid)

\* BuildPayload testing "is not None" where the code tests truth
BuildPayloadKeepsEmpty(a) ==
    [k \in {"sysType"}
           \cup (IF a.sid.t /= "none" THEN {"sid"} ELSE {})
           \cup (IF a.objid.t /= "none" THEN {"objid"} ELSE {})
           \cup (IF a.sections.t /= "none" THEN {"sections"} ELSE {}) |-> a[k]]

\* lines 77-86: the request payload
BuildPayload(a) ==
    [k \in {"sysType"}
           \cup (IF Truthy(a.sid) THEN {"sid"} ELSE {})
           \cup (IF Truthy(a.objid) THEN {"objid"} ELSE {})
           \cup (IF Truthy(a.sections) THEN {"sections"} ELSE {}) |-> a[k]]

\* lines 72-73 and 88: the url
SystemDataUrl(a) ==
    <<IF a.base_url.t = "none" THEN "https://dlm/slim/" ELSE a.base_url.v,
      "/rest/external/aicockpit/systemdata">>

\* lines 61-90: validation, then the payload
SystemDetailsValidate ==
    /\ UNCHANGED <<script_vars, sect_vars>>
    /\ sysd_pc = "called"
    /\ IF MissingIdentifier(sysd_args)
       THEN /\ sysd_return' = JsonDumpsIndent(
                   [error |-> "Either 'sid' or 'objid' parameter is required",
                    step |-> "validation"])
            /\ sysd_pc' = "returned"
            /\ UNCHANGED sysd_payload
       ELSE /\ sysd_payload' = BuildPayload(sysd_args)
            /\ sysd_pc' = "post"
            /\ UNCHANGED sysd_return
    /\ UNCHANGED <<sysd_args, sysd_posts, sysd_resp>>

\* bodies the landscape service can answer with
SystemDataBodies ==
    {"{\"system_details\": {}}", "{\"error\": \"not found\"}", "[]", "<html></html>"}

SystemDataStatus == {200, 404}

\* resp.json()
SystemDataJson(text) ==
    CASE text = "{\"system_details\": {}}" -> [ok |-> TRUE, v |-> [system_details |-> "{}"]]
      [] text = "{\"error\": \"not found\"}" -> [ok |-> TRUE, v |-> [error |-> "not found"]]
      [] text = "[]" -> [ok |-> TRUE, v |-> List(<<>>)]
      [] OTHER -> [ok |-> FALSE]

\* lines 123-129: the except clause's return value
FetchError(exc) ==
    JsonDumpsIndent([error |-> "Error in aicockpit_get_system_details: " \o exc,
                     step |-> "fetch_system_data"])

\* SystemDetailsPost with raise_for_status outside the try
SystemDetailsPostRaises ==
    /\ UNCHANGED <<script_vars, sect_vars>>
    /\ sysd_pc = "post"
    /\ sysd_posts' = Append(sysd_posts, [url |-> SystemDataUrl(sysd_args),
                                         json |-> sysd_payload])
    /\ \/ /\ sysd_return' = FetchError("ConnectError")
          /\ sysd_pc' = "returned"
          /\ UNCHANGED sysd_resp
       \/ \E c \in SystemDataStatus, b \in SystemDataBodies :
            /\ sysd_resp' = [t |-> "Response", status_code |-> c, text |-> b]
            /\ IF c >= 400
               THEN sysd_pc' = "raised" /\ UNCHANGED sysd_return
               ELSE /\ sysd_pc' = "returned"
                    /\ sysd_return' =
                          IF ~SystemDataJson(b).ok THEN FetchError("JSONDecodeError")
                          ELSE JsonDumpsIndent(SystemDataJson(b).v)
    /\ UNCHANGED <<sysd_args, sysd_payload>>

\* lines 93-129: the POST, raise_for_status, resp.json() and the return
SystemDetailsPost ==
    /\ UNCHANGED <<script_vars, sect_vars>>
    /\ sysd_pc = "post"
    /\ sysd_posts' = Append(sysd_posts, [url |-> SystemDataUrl(sysd_args),
                                         json |-> sysd_payload])
    /\ \/ \* client.post raises
          /\ sysd_return' = FetchError("ConnectError")
          /\ UNCHANGED sysd_resp
       \/ \E c \in SystemDataStatus, b \in SystemDataBodies :
            /\ sysd_resp' = [t |-> "Response", status_code |-> c, text |-> b]
            /\ sysd_return' =
                  IF c >= 400 THEN FetchError("HTTPStatusError")
                  ELSE IF ~SystemDataJson(b).ok THEN FetchError("JSONDecodeError")
                  ELSE JsonDumpsIndent(SystemDataJson(b).v)
    /\ sysd_pc' = "returned"
    /\ UNCHANGED <<sysd_args, sysd_payload>>

NextSystemDetails ==
    \/ SystemDetailsValidate
    \/ SystemDetailsPost

SpecSystemDetails == InitSystemDetails /\ [][NextSystemDetails]_vars

(***************************************************************************)
(* aicockpit_get_sections (lines 132-188), one call of it.                 *)
(***************************************************************************)
\* a call of aicockpit_get_sections has been made
SectionsCalled ==
    /\ sect_pc = "called"
    /\ sect_base_url \in BaseUrlValues
    /\ sect_gets = <<>>
    /\ sect_resp = None
    /\ sect_return = Unset

\* lines 157-161: the url
SectionsUrl(base_url) ==
    <<IF base_url.t = "none" THEN "https://dlm/slim/" ELSE base_url.v,
      "/rest/external/aicockpit/sections">>

\* bodies the landscape service can answer the GET with
SectionsBodies ==
    {"{\"available_sections\": [], \"total_sections\": 0}", "{\"error\": \"no sections\"}",
     "[]", "<html></html>"}

\* resp.json()
SectionsJson(text) ==
    CASE text = "{\"available_sections\": [], \"total_sections\": 0}" ->
            [ok |-> TRUE, v |-> [available_sections |-> <<>>, total_sections |-> 0]]
      [] text = "{\"error\": \"no sections\"}" -> [ok |-> TRUE, v |-> [error |-> "no sections"]]
      [] text = "[]" -> [ok |-> TRUE, v |-> List(<<>>)]
      [] OTHER -> [ok |-> FALSE]

\* isinstance(result, dict): result.get exists (line 178)
IsDict(v) == ~("t" \in DOMAIN v)

\* lines 182-188: the except clause's return value
FetchSectionsError(exc) ==
    JsonDumpsIndent([error |-> "Error in aicockpit_get_sections: " \o exc,
                     step |-> "fetch_sections"])

\* lines 155-188: the GET, raise_for_status, resp.json(), result.get and
\* the return
SectionsGet ==
    /\ UNCHANGED <<script_vars, sysd_vars>>
    /\ sect_pc = "called"
    /\ sect_gets' = Append(sect_gets, SectionsUrl(sect_base_url))
    /\ \/ \* client.get raises
          /\ sect_return' = FetchSectionsError("ConnectError")
          /\ UNCHANGED sect_resp
       \/ \E c \in SystemDataStatus, b \in SectionsBodies :
            /\ sect_resp' = [t |-> "Response", status_code |-> c, text |-> b]
            /\ sect_return' =
                  IF c >= 400 THEN FetchSectionsError("HTTPStatusError")
                  ELSE IF ~SectionsJson(b).ok THEN FetchSectionsError("JSONDecodeError")
                  ELSE IF ~IsDict(SectionsJson(b).v) THEN FetchSectionsError("AttributeError")
                  ELSE JsonDumpsIndent(SectionsJson(b).v)
    /\ sect_pc' = "returned"
    /\ UNCHANGED sect_base_url

\* one call of each of the two functions
InitAICockpit ==
    /\ ScriptInit
    /\ SystemDetailsCalled
    /\ SectionsCalled

NextAICockpit ==
    \/ SystemDetailsValidate
    \/ SystemDetailsPost
    \/ SectionsGet

SpecAICockpit == InitAICockpit /\ [][NextAICockpit]_vars

(***************************************************************************)
(* Properties of the script.                                               *)
(***************************************************************************)
InitialMessages ==
    <<[role |-> "system", content |-> system_prompt],
      [role |-> "user", content |-> user_prompt]>>

\* the first completion call has answered
FirstResponded == "tool_calls" \in DOMAIN response

\* a turn that reports a tool's result: role "tool" or role "function"
IsResultTurn(m) == m.role \in {"tool", "function"}

\* the result turns of a conversation
ResultTurns(msgs) == {i \in 1..Len(msgs) : IsResultTurn(msgs[i])}

\* the second completion call has been issued
SecondCallIssued == Len(completions) = 2

\* C1: when the first response carries N >= 1 tool-call requests, by the
\* time the second completion call is issued call_function has been applied
\* to each of the N requests and the conversation handed to that call holds
\* exactly N tool-result turns.
C1_EveryToolCallAnswered ==
    (FirstResponded /\ SecondCallIssued) =>
        /\ Len(invocations) = Len(response.tool_calls)
        /\ \A i \in 1..Len(response.tool_calls) :
              \E j \in 1..Len(invocations) : invocations[j] = response.tool_calls[i].id
        /\ Cardinality(ResultTurns(completions[2])) = Len(response.tool_calls)

\* C2: when the first response carries no tool-call request, the script can
\* only go on to done: no backend call, no second completion call, no
\* exception, the conversation as it started, and the text it ends with is
\* the first response's content.
C2_NoToolCallsDone ==
    (FirstResponded /\ response.tool_calls = <<>>) =>
        /\ pc \in {"branch", "done"}
        /\ pc = "branch" => ENABLED NoToolCalls
        /\ pc = "done" => assistant_content = response.content
        /\ posts = <<>>
        /\ invocations = <<>>
        /\ Len(completions) = 1
        /\ second_response = None
        /\ messages = InitialMessages
        /\ exception = None

\* C2's case: a run that ended on the first response's text
C2_Witness ==
    /\ pc = "done"
    /\ FirstResponded
    /\ response.tool_calls = <<>>
    /\ assistant_content = Str("first answer")

\* call_function has been applied to a name it has no handler for
UnknownToolInvoked ==
    /\ invocations /= <<>>
    /\ tool_call.function.name \notin call_function_names

\* C3: when call_function is applied to a tool name it has no handler for,
\* nothing is raised: the script does not end by an exception of the tool
\* step, a result turn for the call is appended and the second completion
\* call follows.
C3_UnknownToolAnswered ==
    UnknownToolInvoked =>
        /\ exception \in {None, Str("CompletionServiceError")}
        /\ pc \in {"append_result", "second_call", "done", "crashed"}
        /\ pc /= "append_result" =>
              /\ SecondCallIssued \/ pc = "second_call"
              /\ ResultTurns(messages) /= {}

\* requests.post was called and returned no response
TransportFailed ==
    /\ posts /= <<>>
    /\ function_response = Unset
    /\ pc /= "call_function"

\* C4: when the backend call fails at transport level the failure is not
\* raised past the script: a failed tool result is appended and the second
\* completion call follows.
C4_TransportFailureCaptured ==
    TransportFailed =>
        /\ exception \in {None, Str("CompletionServiceError")}
        /\ pc /= "append_result" =>
              /\ SecondCallIssued \/ pc = "second_call"
              /\ ResultTurns(messages) /= {}

\* C5: every tool-result turn of the conversation carries the id of the
\* tool call it answers, whichever branch appended it, and the conversation
\* handed to the second completion call holds exactly one result turn for
\* each requested call id.
C5_ResultsCarryCallId ==
    /\ \A i \in ResultTurns(messages) :
          /\ "tool_call_id" \in DOMAIN messages[i]
          /\ \E k \in 1..Len(response.tool_calls) :
                response.tool_calls[k].id = messages[i].tool_call_id
    /\ (FirstResponded /\ SecondCallIssued) =>
          \A k \in 1..Len(response.tool_calls) :
             Cardinality({i \in ResultTurns(completions[2]) :
                             /\ "tool_call_id" \in DOMAIN completions[2][i]
                             /\ completions[2][i].tool_call_id = response.tool_calls[k].id}) = 1

\* C6: a system-detail lookup called with neither sid nor objid (each absent
\* or empty) returns the validation error and posts nothing.
C6_MissingIdentifierRejected ==
    (sysd_pc /= "idle" /\ ~Truthy(sysd_args.sid) /\ ~Truthy(sysd_args.objid)) =>
        /\ sysd_posts = <<>>
        /\ sysd_pc \in {"called", "returned"}
        /\ sysd_pc = "called" => ENABLED SystemDetailsValidate
        /\ sysd_pc = "returned" =>
              /\ "error" \in DOMAIN sysd_return.v
              /\ sysd_return.v.step = "validation"

\* C6's case: the call returned for an empty sid and an absent objid
C6_Witness ==
    /\ sysd_pc = "returned"
    /\ sysd_args.sid = Str("")
    /\ sysd_args.objid = None
    /\ sysd_return.v.step = "validation"

\* HIGH is present exactly for the range operators
HighMatchesOption(selop) == ("HIGH" \in DOMAIN selop) <=> (selop.OPTION \in RangeOptions)

\* every selection option of a payload has HIGH exactly for BT and NB
SelOpsWellFormed(payload) ==
    "HEADER_FILTER" \in DOMAIN payload =>
        \A i \in 1..Len(payload.HEADER_FILTER) :
            \A j \in 1..Len(payload.HEADER_FILTER[i].VALUE_SELOP) :
                HighMatchesOption(payload.HEADER_FILTER[i].VALUE_SELOP[j])

\* C7: every payload search_BCM_Request posts to the backend has HIGH in a
\* selection option exactly when its OPTION is BT or NB: a payload violating
\* this is rejected before the network call.
C7_SelOpsValidated ==
    \A i \in 1..Len(posts) : SelOpsWellFormed(posts[i])

\* C8: a failure of the completion service, on the first or the second
\* call, ends the script with that exception: the call is not repeated and
\* no step follows it (after a failed first call no turn was appended and
\* no tool ran, after a failed second call there is no final answer).
C8_CompletionFailureFatal ==
    exception = Str("CompletionServiceError") =>
        /\ pc = "crashed"
        /\ ~ENABLED Next
        /\ Len(completions) \in {1, 2}
        /\ Len(completions) = 1 =>
              /\ response = None
              /\ messages = InitialMessages
              /\ invocations = <<>>
              /\ posts = <<>>
        /\ Len(completions) = 2 =>
              /\ completions[2] = messages
              /\ second_response = None
              /\ final_response = Unset

\* C8's case: the second completion call failed after a tool result
C8_Witness ==
    /\ exception = Str("CompletionServiceError")
    /\ Len(completions) = 2
    /\ ResultTurns(messages) /= {}

\* requests.post returned a response
ResponseReceived == function_response.t = "Response"

\* C9: when the backend answered, the result turn holds the parsed body
\* (re-serialised) if the body parses and the raw text otherwise, under a
\* different role; exactly one result turn is appended and the second
\* completion call follows.
C9_ParsedOrRawResult ==
    ResponseReceived =>
        /\ pc \in {"append_result", "second_call", "done", "crashed"}
        /\ pc = "append_result" => ENABLED AppendResult /\ ResultTurns(messages) = {}
        /\ pc = "second_call" => ENABLED SecondCompletion
        /\ pc \in {"done", "crashed"} => SecondCallIssued
        /\ pc /= "append_result" =>
              /\ ResultTurns(messages) = {Len(messages)}
              /\ LET m == messages[Len(messages)]
                     parsed == JsonLoads(function_response.text) IN
                 IF parsed.ok
                 THEN m.role = "tool" /\ m.content = JsonDumps(parsed.v)
                 ELSE m.role = "function" /\ m.content = function_response.text

\* C9's case: a body that is no JSON went into the conversation as raw
\* text and the second completion call was made
C9_Witness ==
    /\ ResponseReceived
    /\ ~JsonLoads(function_response.text).ok
    /\ SecondCallIssued
    /\ messages[Len(messages)].role = "function"
    /\ messages[Len(messages)].content = "<html>Logon failed</html>"

\* s is an initial part of t
IsPrefix(s, t) == Len(s) <= Len(t) /\ \A i \in 1..Len(s) : s[i] = t[i]

\* System, User, then (if tools were requested) Assistant, then result turns
WellOrdered(msgs) ==
    /\ Len(msgs) >= 2
    /\ msgs[1].role = "system"
    /\ msgs[2].role = "user"
    /\ \A i \in 3..Len(msgs) :
          IF i = 3 THEN msgs[i].role = "assistant" /\ msgs[i].tool_calls = response.tool_calls
          ELSE IsResultTurn(msgs[i])

\* C10: the conversation starts as System, User; every step leaves the
\* turns it holds in place and unchanged; the Assistant turn precedes every
\* result turn; and the conversation handed to the second completion call
\* is System, User, Assistant, then result turns only.
C10_AppendOnly ==
    /\ messages = InitialMessages
    /\ [][IsPrefix(messages, messages')]_vars
    /\ [](/\ WellOrdered(messages)
          /\ Len(completions) >= 1 => completions[1] = InitialMessages
          /\ SecondCallIssued =>
                /\ WellOrdered(completions[2])
                /\ Len(completions[2]) >= 4)

\* C10's case: the second completion call was handed a conversation that
\* ends in a result turn
C10_Witness ==
    /\ SecondCallIssued
    /\ Len(completions[2]) = 4
    /\ completions[2][3].role = "assistant"
    /\ IsResultTurn(completions[2][4])

\* no field name occurs twice in a field list
NoDuplicates(fields) ==
    \A i, j \in 1..Len(fields) : fields[i] = fields[j] => i = j

\* a field list with every repeated occurrence of a name removed
RECURSIVE FirstSeen(_)
FirstSeen(fields) ==
    IF fields = <<>> THEN <<>>
    ELSE LET front == FirstSeen(SubSeq(fields, 1, Len(fields) - 1))
             last == fields[Len(fields)] IN
         IF \E i \in 1..Len(front) : front[i] = last THEN front ELSE Append(front, last)

\* C11: the output-field list of every payload posted to the client-request
\* backend has no duplicate field name and is the list given in the tool
\* arguments with its repeated names removed, in first-seen order.
C11_OutFieldsDeduplicated ==
    \A i \in 1..Len(posts) :
        "HEADER_OUT_FEILD" \in DOMAIN posts[i] =>
            /\ NoDuplicates(posts[i].HEADER_OUT_FEILD)
            /\ posts[i].HEADER_OUT_FEILD = FirstSeen(arguments.payload.HEADER_OUT_FEILD)

\* the keys the request body is to have for the arguments a
ExpectedKeys(a) ==
    {"sysType"}
    \cup {k \in {"sid", "objid"} : a[k].t = "str" /\ a[k].v /= ""}
    \cup {k \in {"sections"} : a[k].t = "list" /\ Len(a[k].v) > 0}

\* C12: the body aicockpit_get_system_details posts has sysType, has sid,
\* objid and sections exactly when a non-empty one was supplied, each with
\* the supplied value, and no other key; and no POST is made unless sid or
\* objid is in the body.
C12_RequestBodyKeys ==
    /\ Len(sysd_posts) <= 1
    /\ \A i \in 1..Len(sysd_posts) :
          LET body == sysd_posts[i].json IN
          /\ DOMAIN body = ExpectedKeys(sysd_args)
          /\ \A k \in DOMAIN body : body[k] = sysd_args[k]
          /\ "sid" \in DOMAIN body \/ "objid" \in DOMAIN body

\* C12's case: a POST for an empty sid, an objid and an empty sections list,
\* whose body holds sysType and objid alone
C12_Witness ==
    /\ Len(sysd_posts) = 1
    /\ sysd_args.sid = Str("")
    /\ sysd_args.sections = List(<<>>)
    /\ DOMAIN sysd_posts[1].json = {"sysType", "objid"}

\* the script has ended: the last line was reached, or an exception ended it
RunEnded == pc \in {"done", "crashed"}

\* C13: a run issues at most two completion calls, exactly one when the
\* first response has no tool calls and exactly two when it has; a second
\* response ends the run with its text as the final answer, and the tool
\* calls it carries are never executed.
C13_CompletionCallCount ==
    /\ Len(completions) <= 2
    /\ (RunEnded /\ FirstResponded) =>
          Len(completions) = IF response.tool_calls = <<>> THEN 1 ELSE 2
    /\ "tool_calls" \in DOMAIN second_response =>
          /\ pc = "done"
          /\ ~ENABLED Next
          /\ final_response = second_response.content
          /\ Len(invocations) <= 1
          /\ \A i \in 1..Len(invocations) :
                \E k \in 1..Len(response.tool_calls) :
                    /\ invocations[i] = response.tool_calls[k].id
                    /\ tool_call = response.tool_calls[k]

\* every tool call of the first response names an advertised tool
OnlyAdvertisedRequested ==
    /\ FirstResponded
    /\ \A k \in 1..Len(response.tool_calls) : response.tool_calls[k].function.name \in tools

\* C14: every tool name in the tools list handed to the completion calls
\* has a handler in call_function: when the model requests advertised tools
\* only, call_function never returns without a result.
C14_AdvertisedToolsHandled ==
    (OnlyAdvertisedRequested /\ invocations /= <<>>) =>
        /\ tool_call.function.name \in call_function_names
        /\ function_response /= None

\* aicockpit_get_system_details met a failure: no identifier, or the POST
\* raised, or answered with an error status or a body that is no JSON
SystemDetailsFailed ==
    \/ ~Truthy(sysd_args.sid) /\ ~Truthy(sysd_args.objid)
    \/ /\ sysd_posts /= <<>>
       /\ \/ sysd_resp = None
          \/ sysd_resp.status_code >= 400
          \/ ~SystemDataJson(sysd_resp.text).ok

\* aicockpit_get_sections met a failure: the GET raised, or answered with
\* an error status or a body that is no JSON
SectionsFailed ==
    /\ sect_gets /= <<>>
    /\ \/ sect_resp = None
       \/ sect_resp.status_code >= 400
       \/ ~SectionsJson(sect_resp.text).ok

\* a returned value that is the JSON text of an object with error and step
IsErrorResult(ret, steps) ==
    /\ ret.t = "json"
    /\ {"error", "step"} \subseteq DOMAIN ret.v
    /\ ret.v.step \in steps

\* C15: neither function raises: each call goes on to return, returns one
\* JSON string, which after a failure (transport, status, body that does not
\* parse, missing identifier) is an object with "error" and "step", and
\* each makes at most one request.
C15_NeverRaises ==
    /\ sysd_pc \in {"called", "post", "returned"}
    /\ sect_pc \in {"called", "returned"}
    /\ sysd_pc = "called" => ENABLED SystemDetailsValidate
    /\ sysd_pc = "post" => ENABLED SystemDetailsPost
    /\ sect_pc = "called" => ENABLED SectionsGet
    /\ Len(sysd_posts) <= 1
    /\ Len(sect_gets) <= 1
    /\ sysd_pc /= "returned" => sysd_return = Unset
    /\ sect_pc /= "returned" => sect_return = Unset
    /\ sysd_pc = "returned" =>
          /\ ~ENABLED SystemDetailsValidate /\ ~ENABLED SystemDetailsPost
          /\ sysd_return.t = "json"
          /\ SystemDetailsFailed => IsErrorResult(sysd_return, {"validation", "fetch_system_data"})
          /\ ~SystemDetailsFailed => sysd_return.v = SystemDataJson(sysd_resp.text).v
    /\ sect_pc = "returned" =>
          /\ ~ENABLED SectionsGet
          /\ sect_return.t = "json"
          /\ SectionsFailed => IsErrorResult(sect_return, {"fetch_sections"})

\* C15's case: the POST was answered 404 and the GET with a body that is no
\* JSON, and both calls returned their error object
C15_Witness ==
    /\ sysd_pc = "returned"
    /\ sysd_resp /= None
    /\ sysd_resp.status_code = 404
    /\ sysd_return.v.step = "fetch_system_data"
    /\ sect_pc = "returned"
    /\ sect_resp /= None
    /\ sect_resp.status_code = 200
    /\ sect_resp.text = "<html></html>"
    /\ sect_return.v.step = "fetch_sections"

====
